---- MODULE Spec2Model ----
(***************************************************************************)
(* Model of jira_issues_workedOn.py: the assignee-history reconstruction   *)
(* (compute_assignee_window_info), the user-filter matcher                 *)
(* (match_holders_to_user_filter), the changelog pager                     *)
(* (get_assignee_changes), the issue search generator (search_issues) and  *)
(* the orchestration in main.                                              *)
(*                                                                         *)
(* Time is a bounded range of integers; one unit is the resolution of a    *)
(* Python datetime (one microsecond).  Python strings are sequences of     *)
(* one-character strings, so that strip() and lower() are real functions.  *)
(***************************************************************************)
EXTENDS Integers, Sequences, FiniteSets, TLC

VARIABLES
    \* ---- SpecWindow: one call of compute_assignee_window_info
    w_pc,          \* "input" before the call, "done" after it
    w_fields,      \* issue_fields argument
    w_changes,     \* assignee_changes argument (sorted by created_dt)
    w_start,       \* window_start argument
    w_end,         \* window_end argument
    w_intervals,   \* the local list `intervals` after line 208
    w_result,      \* the returned dict
    \* ---- SpecMatch: one call of match_holders_to_user_filter after csv_list
    m_pc,          \* "input" before the call, "done" after it
    m_holders,     \* holders argument
    m_users_arg,   \* the comma separated entries of --users, before csv_list
    m_accountid,   \* use_accountid argument
    m_users,       \* csv_list(args.users) or None
    m_result,      \* the list out_unique joined at line 266
    \* ---- Spec: one run of main
    pc,            \* position of main: "start", "search", "changelog", "output",
                   \*   "done", or how it aborted: "exit2", "raised_date", "raised_ts"
    args,          \* the parsed command line
    window,        \* window_start and window_end
    search_requests,     \* POSTs search_issues has sent
    pending,       \* issues of the current search page not yet finished (generator state)
    page_info,     \* isLast and nextPageToken of the current search page
    start_at,      \* start_at of get_assignee_changes for the current issue
    changes,       \* changes of get_assignee_changes for the current issue
    changelog_requested, \* whether any changelog GET was sent
    changelog_errors,    \* issue keys of the "ERROR ... fetching changelog" lines on stderr
    rows,          \* the list rows of main
    printed,       \* result rows printed to stdout
    csv_file,      \* result rows written to the CSV file
    \* ---- SpecChangelog: one call of get_assignee_changes
    c_pc,          \* "loop" inside the while loop, "done" after the return,
                   \*   "raised" after the ValueError of parse_api_dt
    c_server,      \* the responses the server has given to the GETs so far
    c_start_at,    \* the local start_at
    c_changes,     \* the local changes, before the sort
    c_requests,    \* the startAt parameter of every GET sent so far
    c_result       \* the returned list

winVars   == <<w_pc, w_fields, w_changes, w_start, w_end, w_intervals, w_result>>
matchVars == <<m_pc, m_holders, m_users_arg, m_accountid, m_users, m_result>>
runVars   == <<pc, args, window, search_requests, pending, page_info, start_at, changes,
               changelog_requested, changelog_errors, rows, printed, csv_file>>
clVars    == <<c_pc, c_server, c_start_at, c_changes, c_requests, c_result>>
vars      == <<winVars, matchVars, runVars, clVars>>

-----------------------------------------------------------------------------
(* Bounds of the model *)

MaxChanges == 2     \* longest assignee_changes list drawn for SpecWindow
MaxEventT  == 3     \* SpecWindow draws created_dt from 1..MaxEventT
DayLen     == 3     \* instants per calendar day
MaxStrLen  == 2     \* longest string drawn for SpecMatch
MaxHolders == 2     \* longest holders list drawn for SpecMatch
MaxUsers   == 2     \* most comma separated entries of --users
MaxIssues  == 2     \* most issues the search returns in one run
MaxSearchPages    == 2   \* most pages the search returns in one run
MaxChangelogPages == 2   \* most changelog pages of one issue

-----------------------------------------------------------------------------
(* Instants *)

\* datetime.min.replace(tzinfo=timezone.utc)
DT_MIN == 0
\* datetime.max.replace(tzinfo=timezone.utc): later than the end of day 2
DT_MAX == 2 * DayLen + 1
\* timedelta(microseconds=1)
Eps == 1

Max2(a, b) == IF a >= b THEN a ELSE b
Min2(a, b) == IF a <= b THEN a ELSE b

\* overlaps(a_start, a_end, b_start, b_end) with "<=" replaced by "<" (mutant)
overlaps_strict(a_start, a_end, b_start, b_end) ==
    (a_start < b_end) /\ (b_start < a_end)

overlaps(a_start, a_end, b_start, b_end) ==
    (a_start <= b_end) /\ (b_start <= a_end)

-----------------------------------------------------------------------------
(* Strings *)

\* Python None where a string may stand: a value that is no string of Chars
None == <<"None">>

\* truthiness of an optional string: neither None nor ""
Truthy(s) == s # None /\ s # <<>>

IsSpace(c) == c = " "

LowerChar(c) ==
    CASE c = "A" -> "a"
      [] c = "B" -> "b"
      [] c = "C" -> "c"
      [] OTHER   -> c

\* str.lower()
Lower(s) == [i \in 1..Len(s) |-> LowerChar(s[i])]

RECURSIVE LStrip(_)
LStrip(s) == IF s # <<>> /\ IsSpace(Head(s)) THEN LStrip(Tail(s)) ELSE s

RECURSIVE RStrip(_)
RStrip(s) ==
    IF s # <<>> /\ IsSpace(s[Len(s)]) THEN RStrip(SubSeq(s, 1, Len(s) - 1)) ELSE s

\* str.strip()
Strip(s) == RStrip(LStrip(s))

RECURSIVE SeqFilterNonEmpty(_)
SeqFilterNonEmpty(s) ==
    IF s = <<>> THEN <<>>
    ELSE IF Head(s) # <<>> THEN <<Head(s)>> \o SeqFilterNonEmpty(Tail(s))
    ELSE SeqFilterNonEmpty(Tail(s))

\* csv_list(s), s given as its comma separated pieces: strip each, drop the empty
csv_list(pieces) == SeqFilterNonEmpty([i \in 1..Len(pieces) |-> Strip(pieces[i])])

-----------------------------------------------------------------------------
(* compute_assignee_window_info: the interval list *)

\* end of an interval that stops at the next change, without the subtraction (mutant)
IntervalEnd_NoEps(next_dt) == next_dt

\* nxt["created_dt"] - timedelta(microseconds=1)
IntervalEnd(next_dt) == next_dt - Eps

\* the interval before the first change: held by its "from" side
FirstInterval(first) ==
    [start |-> DT_MIN, end |-> IntervalEnd(first.created_dt),
     id |-> first.from_id, name |-> first.from_name]

\* the interval between two changes, held by the later change's "to" side (mutant)
BetweenInterval_NextTo(cur, nxt) ==
    [start |-> cur.created_dt, end |-> IntervalEnd(nxt.created_dt),
     id |-> nxt.to_id, name |-> nxt.to_name]

\* the interval between two changes: the "to" of cur holds until nxt
BetweenInterval(cur, nxt) ==
    [start |-> cur.created_dt, end |-> IntervalEnd(nxt.created_dt),
     id |-> cur.to_id, name |-> cur.to_name]

\* the interval after the last change: its "to" side holds until datetime.max
LastInterval(last) ==
    [start |-> last.created_dt, end |-> DT_MAX,
     id |-> last.to_id, name |-> last.to_name]

\* the single interval of an issue without changes, starting at an instant (mutant)
NoChangeInterval_FromOne(issue_fields) ==
    [start |-> DT_MIN + 1, end |-> DT_MAX,
     id |-> issue_fields.assignee.accountId,
     name |-> issue_fields.assignee.displayName]

\* no changes at all: the current assignee holds for all time.  A null or
\* missing assignee is the object without keys: both of its fields read None.
NoChangeInterval(issue_fields) ==
    [start |-> DT_MIN, end |-> DT_MAX,
     id |-> issue_fields.assignee.accountId,
     name |-> issue_fields.assignee.displayName]

\* the list `intervals` of compute_assignee_window_info
BuildIntervals(issue_fields, assignee_changes) ==
    IF assignee_changes # <<>>
    THEN <<FirstInterval(assignee_changes[1])>>
         \o [i \in 1..(Len(assignee_changes) - 1) |->
                BetweenInterval(assignee_changes[i], assignee_changes[i + 1])]
         \o <<LastInterval(assignee_changes[Len(assignee_changes)])>>
    ELSE <<NoChangeInterval(issue_fields)>>

-----------------------------------------------------------------------------
(* compute_assignee_window_info: the holders inside the window *)

\* the holder entry of an interval that overlaps the window
HolderOf(iv, window_start, window_end) ==
    [id |-> iv.id, name |-> iv.name,
     overlap_start |-> Max2(iv.start, window_start),
     overlap_end   |-> Min2(iv.end, window_end)]

\* the list `holders`: one entry per overlapping interval, in interval order
RECURSIVE OverlappingHolders(_, _, _)
OverlappingHolders(intervals, window_start, window_end) ==
    IF intervals = <<>> THEN <<>>
    ELSE LET iv   == Head(intervals)
             rest == OverlappingHolders(Tail(intervals), window_start, window_end)
         IN  IF overlaps(iv.start, iv.end, window_start, window_end)
             THEN <<HolderOf(iv, window_start, window_end)>> \o rest
             ELSE rest

\* the sort key (overlap_start, overlap_end), compared as Python compares tuples
HolderKeyLess(a, b) ==
    \/ a.overlap_start < b.overlap_start
    \/ a.overlap_start = b.overlap_start /\ a.overlap_end < b.overlap_end

\* insert h behind every entry whose key is not greater: the sort is stable
RECURSIVE InsertHolder(_, _)
InsertHolder(s, h) ==
    IF s = <<>> THEN <<h>>
    ELSE IF HolderKeyLess(h, Head(s)) THEN <<h>> \o s
    ELSE <<Head(s)>> \o InsertHolder(Tail(s), h)

RECURSIVE SortInto(_, _)
SortInto(acc, s) ==
    IF s = <<>> THEN acc ELSE SortInto(InsertHolder(acc, Head(s)), Tail(s))

\* sorted(holders, key=lambda h: (h["overlap_start"], h["overlap_end"]))
SortHolders(holders) == SortInto(<<>>, holders)

\* key = (h["id"], h["name"])
IdentityKey(h) == <<h.id, h.name>>

\* the loop over holders_sorted that keeps the last entry of each key (mutant)
RECURSIVE UniqueHolders_KeepLast(_, _)
UniqueHolders_KeepLast(seen, hs) ==
    IF hs = <<>> THEN <<>>
    ELSE IF \E j \in 2..Len(hs) : IdentityKey(hs[j]) = IdentityKey(Head(hs))
         THEN UniqueHolders_KeepLast(seen, Tail(hs))
         ELSE <<Head(hs)>> \o UniqueHolders_KeepLast(seen, Tail(hs))

\* the loop over holders_sorted: keep an entry when its key was not seen before
RECURSIVE UniqueHolders(_, _)
UniqueHolders(seen, hs) ==
    IF hs = <<>> THEN <<>>
    ELSE IF IdentityKey(Head(hs)) \notin seen
         THEN <<Head(hs)>> \o UniqueHolders(seen \cup {IdentityKey(Head(hs))}, Tail(hs))
         ELSE UniqueHolders(seen, Tail(hs))

\* [x for x in s if x]: the truthy strings of a list, which ", ".join then joins
RECURSIVE TruthyOnly(_)
TruthyOnly(s) ==
    IF s = <<>> THEN <<>>
    ELSE IF Truthy(Head(s)) THEN <<Head(s)>> \o TruthyOnly(Tail(s))
    ELSE TruthyOnly(Tail(s))

\* the dict compute_assignee_window_info returns.  The two joined strings are
\* kept as the lists that ", ".join receives.
WindowInfo(intervals, window_start, window_end) ==
    LET holders == OverlappingHolders(intervals, window_start, window_end)
        unique  == UniqueHolders({}, SortHolders(holders))
    IN  [assignees_during_window_display |->
             TruthyOnly([i \in 1..Len(unique) |-> unique[i].name]),
         assignees_during_window_accountIds |->
             TruthyOnly([i \in 1..Len(unique) |-> unique[i].id]),
         first_assignee_in_window |->
             IF unique # <<>> THEN unique[1].name ELSE <<>>,
         last_assignee_in_window |->
             IF unique # <<>> THEN unique[Len(unique)].name ELSE <<>>,
         holders |-> unique]

compute_assignee_window_info(issue_fields, assignee_changes, window_start, window_end) ==
    WindowInfo(BuildIntervals(issue_fields, assignee_changes), window_start, window_end)

-----------------------------------------------------------------------------
(* match_holders_to_user_filter *)

\* x in users_norm
InList(x, lst) == \E i \in 1..Len(lst) : lst[i] = x

\* users_norm = [u.strip().lower() for u in users]
UsersNorm(users) == [i \in 1..Len(users) |-> Lower(Strip(users[i]))]

\* the strings the loop over holders appends to `out`, in holder order
RECURSIVE MatchedOut(_, _, _)
MatchedOut(holders, users_norm, use_accountid) ==
    IF holders = <<>> THEN <<>>
    ELSE LET h    == Head(holders)
             rest == MatchedOut(Tail(holders), users_norm, use_accountid)
             nm   == Lower(IF Truthy(h.name) THEN h.name ELSE <<>>)
         IN  IF use_accountid
             THEN IF Truthy(h.id) /\ InList(Lower(h.id), users_norm)
                  THEN <<IF Truthy(h.name) THEN h.name ELSE h.id>> \o rest
                  ELSE rest
             ELSE IF nm # <<>> /\ InList(nm, users_norm)
                  THEN <<h.name>> \o rest
                  ELSE rest

\* preserve order, unique
RECURSIVE UniqueStrings(_, _)
UniqueStrings(seen, out) ==
    IF out = <<>> THEN <<>>
    ELSE IF Head(out) \notin seen
         THEN <<Head(out)>> \o UniqueStrings(seen \cup {Head(out)}, Tail(out))
         ELSE UniqueStrings(seen, Tail(out))

\* match_holders_to_user_filter; the result is the list that ", ".join receives.
\* users = None is the empty list: the code only tests `not users`.
match_holders_to_user_filter(holders, users, use_accountid) ==
    IF users = <<>> THEN <<>>
    ELSE UniqueStrings({}, MatchedOut(holders, UsersNorm(users), use_accountid))

\* main, lines 291 and 318: users from --users, then the matched names
MatchedNames(holders, users, use_accountid) ==
    IF users # <<>> THEN match_holders_to_user_filter(holders, users, use_accountid)
    ELSE <<>>

-----------------------------------------------------------------------------
(* Inputs *)

\* the identities that appear in changelogs and as current assignee
Alice      == [id |-> <<"1">>, name |-> <<"A">>]
Bob        == [id |-> <<"2">>, name |-> <<"B">>]
Unassigned == [id |-> None, name |-> None]
Identities == {Alice, Bob, Unassigned}

\* the "assignee" field of an issue: an object, or null / {} whose keys read None
AssigneeObj(p) == [accountId |-> p.id, displayName |-> p.name]
IssueFields == {[assignee |-> AssigneeObj(p)] : p \in {Alice, Unassigned}}

\* one entry of the list get_assignee_changes returns
ChangeEntry(t, from, to) ==
    [created_dt |-> t, from_id |-> from.id, from_name |-> from.name,
     to_id |-> to.id, to_name |-> to.name]

\* created_dt is later than datetime.min: line 178 subtracts from it
EventTimes == 1..MaxEventT
ChangeEntries == {ChangeEntry(t, f, g) : t \in EventTimes, f \in Identities, g \in Identities}

SeqsUpTo(S, n) == UNION {[1..k -> S] : k \in 0..n}

\* changes.sort(key=lambda x: x["created_dt"]) has run: ascending, ties allowed
IsSortedByCreated(cs) == \A i \in 1..(Len(cs) - 1) : cs[i].created_dt <= cs[i + 1].created_dt
SortedChanges == {cs \in SeqsUpTo(ChangeEntries, MaxChanges) : IsSortedByCreated(cs)}

WindowTimes == DT_MIN..(MaxEventT + 1)

-----------------------------------------------------------------------------
(* Dates and timestamps *)

\* 999000 microseconds: the end of a day stops short of the day's last instant
EndOfDayGap == 1

\* a --from / --to argument: "YYYY-MM-DD" naming a day, or text strptime rejects
DateArg(d) == [wellformed |-> TRUE, day |-> d]
BadDate    == [wellformed |-> FALSE, day |-> 0]
DateArgs   == {BadDate, DateArg(1), DateArg(2)}

\* parse_date_ymd_utc raises ValueError on s
DateRaises(s) == ~s.wellformed

\* parse_date_ymd_utc(s, end_of_day) for a well-formed s: midnight of the day,
\* or 23:59:59.999000 of it
parse_date_ymd_utc(s, end_of_day) ==
    LET midnight == (s.day - 1) * DayLen + 1
    IN  IF end_of_day THEN midnight + (DayLen - 1) - EndOfDayGap ELSE midnight

\* the "created" value of a changelog record: absent (or None, or ""), text that
\* strptime rejects, or a wall-clock time with a numeric UTC offset
NoCreated  == [present |-> FALSE, wellformed |-> FALSE, local |-> 0, offset |-> 0]
BadCreated == [present |-> TRUE,  wellformed |-> FALSE, local |-> 0, offset |-> 0]
Created(l, o) == [present |-> TRUE, wellformed |-> TRUE, local |-> l, offset |-> o]

\* parse_api_dt(s) for a well-formed s: strptime, then astimezone(timezone.utc)
parse_api_dt(s) == s.local - s.offset

-----------------------------------------------------------------------------
(* get_assignee_changes *)

\* max_results = 100
max_results == 100

AssigneeItem(from, to) ==
    [field |-> "assignee", from |-> from.id, fromString |-> from.name,
     to |-> to.id, toString |-> to.name]
StatusItem ==
    [field |-> "status", from |-> <<"1">>, fromString |-> <<"a">>,
     to |-> <<"2">>, toString |-> <<"b">>]

\* the entries one record appends: one per item of the field "assignee"
RECURSIVE ItemEntries(_, _)
ItemEntries(created_dt, items) ==
    IF items = <<>> THEN <<>>
    ELSE IF Head(items).field = "assignee"
         THEN <<[created_dt |-> created_dt,
                 from_id |-> Head(items).from, from_name |-> Head(items).fromString,
                 to_id |-> Head(items).to,     to_name |-> Head(items).toString]>>
              \o ItemEntries(created_dt, Tail(items))
         ELSE ItemEntries(created_dt, Tail(items))

\* the for loop over histories raises: some record's "created" is present and
\* parse_api_dt rejects it
HistoriesRaise(histories) ==
    \E i \in 1..Len(histories) : histories[i].created.present
                                 /\ ~histories[i].created.wellformed

\* the entries the for loop over histories appends when it does not raise; a
\* record without "created" is skipped
RECURSIVE HistoryEntries(_)
HistoryEntries(histories) ==
    IF histories = <<>> THEN <<>>
    ELSE IF ~Head(histories).created.present
         THEN HistoryEntries(Tail(histories))
         ELSE ItemEntries(parse_api_dt(Head(histories).created), Head(histories).items)
              \o HistoryEntries(Tail(histories))

\* data.get("total") is None
NoTotal == -1

\* a loop that asks once more when the total is exactly the end of the page
LoopContinues_PastEnd(data, at) ==
    IF data.total = NoTotal
    THEN data.isLast = "false"
    ELSE ~(at + max_results > data.total)

\* the while loop goes on to the next page after a 200 response
LoopContinues(data, at) ==
    IF data.total = NoTotal
    THEN data.isLast = "false"              \* not data.get("isLast", True)
    ELSE ~(at + max_results >= data.total)

\* an insertion that puts c in front of the entries of equal created_dt
RECURSIVE InsertChange_Unstable(_, _)
InsertChange_Unstable(s, c) ==
    IF s = <<>> THEN <<c>>
    ELSE IF c.created_dt <= Head(s).created_dt THEN <<c>> \o s
    ELSE <<Head(s)>> \o InsertChange_Unstable(Tail(s), c)

\* insert c behind every entry whose created_dt is not greater: list.sort is stable
RECURSIVE InsertChange(_, _)
InsertChange(s, c) ==
    IF s = <<>> THEN <<c>>
    ELSE IF c.created_dt < Head(s).created_dt THEN <<c>> \o s
    ELSE <<Head(s)>> \o InsertChange(Tail(s), c)

RECURSIVE SortChangesInto(_, _)
SortChangesInto(acc, s) ==
    IF s = <<>> THEN acc ELSE SortChangesInto(InsertChange(acc, Head(s)), Tail(s))

\* changes.sort(key=lambda x: x["created_dt"])
SortChanges(cs) == SortChangesInto(<<>>, cs)

-----------------------------------------------------------------------------
(* main: one result row.  The columns copied from the issue without any
   computation (summary, project, type, status, created, updated, resolved)
   are left out. *)

MakeRow(it, sorted_changes, win, users, use_accountid) ==
    LET f   == it.fields
        res == compute_assignee_window_info(f, sorted_changes, win.start, win.end)
    IN  [key |-> it.key,
         assignee_display   |-> IF Truthy(f.assignee.displayName)
                                THEN f.assignee.displayName ELSE <<>>,
         assignee_accountId |-> IF Truthy(f.assignee.accountId)
                                THEN f.assignee.accountId ELSE <<>>,
         assignees_during_window_display    |-> res.assignees_during_window_display,
         assignees_during_window_accountIds |-> res.assignees_during_window_accountIds,
         matched_assignees_during_window    |->
             MatchedNames(res.holders, users, use_accountid),
         first_assignee_in_window |-> res.first_assignee_in_window,
         last_assignee_in_window  |-> res.last_assignee_in_window]

-----------------------------------------------------------------------------
(* Idle values of the variables a specification does not use *)

NoPage == [isLast |-> FALSE, nextPageToken |-> None]
NoArgs == [date_from |-> BadDate, date_to |-> BadDate, users |-> <<>>,
           use_accountid |-> FALSE, csv |-> <<>>]

RunIdle ==
    /\ pc = "idle" /\ args = NoArgs /\ window = [start |-> DT_MIN, end |-> DT_MIN]
    /\ search_requests = 0 /\ pending = <<>> /\ page_info = NoPage
    /\ start_at = 0 /\ changes = <<>>
    /\ changelog_requested = FALSE /\ changelog_errors = {}
    /\ rows = <<>> /\ printed = <<>> /\ csv_file = <<>>

ChangelogIdle ==
    /\ c_pc = "idle" /\ c_server = <<>> /\ c_start_at = 0
    /\ c_changes = <<>> /\ c_requests = <<>> /\ c_result = <<>>

MatchIdle ==
    /\ m_pc = "idle" /\ m_holders = <<>> /\ m_users_arg = <<>>
    /\ m_accountid = FALSE /\ m_users = <<>> /\ m_result = <<>>

WindowIdle ==
    /\ w_pc = "idle" /\ w_fields = [assignee |-> AssigneeObj(Unassigned)]
    /\ w_changes = <<>> /\ w_start = DT_MIN /\ w_end = DT_MIN
    /\ w_intervals = <<>> /\ w_result = <<>>

-----------------------------------------------------------------------------
(* SpecWindow: compute_assignee_window_info on drawn arguments *)

InitWindow ==
    /\ w_pc = "input"
    /\ w_fields \in IssueFields
    /\ w_changes \in SortedChanges
    /\ w_start \in WindowTimes
    /\ w_end \in WindowTimes
    /\ w_start <= w_end
    /\ w_intervals = <<>>
    /\ w_result = <<>>
    /\ MatchIdle
    /\ RunIdle
    /\ ChangelogIdle

ComputeWindow ==
    /\ w_pc = "input"
    /\ w_intervals' = BuildIntervals(w_fields, w_changes)
    /\ w_result' = compute_assignee_window_info(w_fields, w_changes, w_start, w_end)
    /\ w_pc' = "done"
    /\ UNCHANGED <<w_fields, w_changes, w_start, w_end, matchVars, runVars, clVars>>

NextWindow == ComputeWindow

SpecWindow == InitWindow /\ [][NextWindow]_vars

-----------------------------------------------------------------------------
(* SpecMatch: csv_list and match_holders_to_user_filter on drawn arguments *)

Chars == {"a", "A", " "}
Strs  == SeqsUpTo(Chars, MaxStrLen)

\* holders as compute_assignee_window_info returns them: distinct (id, name) keys.
\* The matcher reads only "id" and "name".
HolderIds   == {None, <<"A">>}
HolderNames == {None} \cup Strs
HolderEntries == [id : HolderIds, name : HolderNames]
HolderLists ==
    {hs \in SeqsUpTo(HolderEntries, MaxHolders) :
        \A i, j \in 1..Len(hs) : i # j => hs[i] # hs[j]}

InitMatch ==
    /\ m_pc = "input"
    /\ m_holders \in HolderLists
    /\ m_users_arg \in SeqsUpTo(Strs, MaxUsers)
    /\ m_accountid \in BOOLEAN
    /\ m_users = <<>>
    /\ m_result = <<>>
    /\ WindowIdle
    /\ RunIdle
    /\ ChangelogIdle

Match ==
    /\ m_pc = "input"
    /\ m_users' = csv_list(m_users_arg)
    /\ m_result' = MatchedNames(m_holders, csv_list(m_users_arg), m_accountid)
    /\ m_pc' = "done"
    /\ UNCHANGED <<m_holders, m_users_arg, m_accountid, winVars, runVars, clVars>>

NextMatch == Match

SpecMatch == InitMatch /\ [][NextMatch]_vars

-----------------------------------------------------------------------------
(* Spec: one run of main against a server that answers as it likes.
   The command line passed argparse, --projects and --in-progress-statuses
   are not empty and the three environment variables are set. *)

UserFilters == {<<>>, <<<<"a">>>>}      \* csv_list(args.users), or None as <<>>
CsvArgs     == {<<>>, <<"f">>}          \* args.csv: "" or a file name

Args ==
    [date_from : DateArgs, date_to : DateArgs, users : UserFilters,
     use_accountid : {FALSE}, csv : CsvArgs]

\* what the server may put into the "values" of one changelog page
Rec(created, items) == [created |-> created, items |-> items]
PageHistories ==
    { <<>>,
      <<Rec(Created(3, 1), <<StatusItem, AssigneeItem(Alice, Bob)>>)>>,
      <<Rec(NoCreated, <<AssigneeItem(Bob, Alice)>>),
        Rec(Created(2, 0), <<AssigneeItem(Alice, Bob)>>)>>,
      <<Rec(Created(2, 0), <<AssigneeItem(Alice, Bob)>>),
        Rec(BadCreated, <<AssigneeItem(Bob, Alice)>>)>> }

\* what the server may say about paging on a changelog page: "total", or none
\* and an "isLast" that is absent, true or false
Totals == {NoTotal, max_results} \cup {k * max_results + 1 : k \in 1..(MaxChangelogPages - 1)}
Paging == [total : Totals, isLast : {"absent", "true", "false"}]

SearchData ==
    [issues : SeqsUpTo(IssueFields, MaxIssues), isLast : BOOLEAN,
     nextPageToken : {None, <<"t">>}]

Aborted == pc \in {"exit2", "raised_date", "raised_ts"}

Init ==
    /\ pc = "start"
    /\ args \in Args
    /\ window = [start |-> DT_MIN, end |-> DT_MIN]
    /\ search_requests = 0
    /\ pending = <<>>
    /\ page_info = NoPage
    /\ start_at = 0
    /\ changes = <<>>
    /\ changelog_requested = FALSE
    /\ changelog_errors = {}
    /\ rows = <<>>
    /\ printed = <<>>
    /\ csv_file = <<>>
    /\ WindowIdle
    /\ MatchIdle
    /\ ChangelogIdle

\* main, lines 304-305: a date that strptime rejects raises ValueError
ParseWindowRaises ==
    /\ pc = "start"
    /\ DateRaises(args.date_from) \/ DateRaises(args.date_to)
    /\ pc' = "raised_date"
    /\ UNCHANGED <<winVars, matchVars, clVars, args, window, search_requests, pending, page_info, start_at, changes,
                   changelog_requested, changelog_errors, rows, printed, csv_file>>

\* main, lines 304-305: the window is built; the for loop then asks the
\* generator for its first issue
ParseWindow ==
    /\ pc = "start"
    /\ ~DateRaises(args.date_from) /\ ~DateRaises(args.date_to)
    /\ window' = [start |-> parse_date_ymd_utc(args.date_from, FALSE),
                  end   |-> parse_date_ymd_utc(args.date_to, TRUE)]
    /\ pc' = "search"
    /\ UNCHANGED <<winVars, matchVars, clVars, args, search_requests, pending, page_info, start_at, changes,
                   changelog_requested, changelog_errors, rows, printed, csv_file>>

\* where search_issues goes once the issues of a page are used up
AfterPage(info) ==
    IF info.isLast THEN "output"
    ELSE IF ~Truthy(info.nextPageToken) THEN "output"
    ELSE "search"

\* the rows printed when the search answers with an error, if the rows
\* collected so far were flushed before exiting (mutant)
PrintedAtSearchError_Flush == rows

\* the rows printed when the search answers with an error: sys.exit(2) leaves
\* main before the print loop
PrintedAtSearchError == printed

\* search_issues: the POST is answered with a status other than 200
SearchFails ==
    /\ pc = "search"
    /\ search_requests < MaxSearchPages
    /\ search_requests' = search_requests + 1
    /\ printed' = PrintedAtSearchError
    /\ pc' = "exit2"
    /\ UNCHANGED <<winVars, matchVars, clVars, args, window, pending, page_info, start_at, changes,
                   changelog_requested, changelog_errors, rows, csv_file>>

\* search_issues: the POST is answered with 200 and a page of issues
SearchPage ==
    /\ pc = "search"
    /\ search_requests < MaxSearchPages
    /\ \E data \in SearchData :
          /\ Len(rows) + Len(data.issues) <= MaxIssues
          /\ search_requests + 1 = MaxSearchPages
                => AfterPage([isLast |-> data.isLast,
                              nextPageToken |-> data.nextPageToken]) = "output"
          /\ search_requests' = search_requests + 1
          /\ pending' = [i \in 1..Len(data.issues) |->
                            [key |-> Len(rows) + i, fields |-> data.issues[i]]]
          /\ page_info' = [isLast |-> data.isLast, nextPageToken |-> data.nextPageToken]
          /\ pc' = IF data.issues # <<>> THEN "changelog" ELSE AfterPage(page_info')
    /\ start_at' = 0
    /\ changes' = <<>>
    /\ UNCHANGED <<winVars, matchVars, clVars, args, window, changelog_requested, changelog_errors, rows,
                   printed, csv_file>>

\* the loop of get_assignee_changes has ended with the list cs: sort it, build
\* the row of the current issue, and let the generator yield the next issue
FinishIssue(cs) ==
    /\ rows' = Append(rows, MakeRow(Head(pending), SortChanges(cs), window,
                                    args.users, args.use_accountid))
    /\ pending' = Tail(pending)
    /\ pc' = IF Tail(pending) # <<>> THEN "changelog" ELSE AfterPage(page_info)
    /\ start_at' = 0
    /\ changes' = <<>>

\* the list get_assignee_changes goes on with after a response other than 200:
\* `break` keeps what the earlier pages appended
ChangesAfterError(cs) == cs

\* get_assignee_changes: the GET is answered with a status other than 200
ChangelogFails ==
    /\ pc = "changelog"
    /\ changelog_requested' = TRUE
    /\ changelog_errors' = changelog_errors \cup {Head(pending).key}
    /\ FinishIssue(ChangesAfterError(changes))
    /\ UNCHANGED <<winVars, matchVars, clVars, args, window, search_requests, page_info, printed, csv_file>>

\* get_assignee_changes: a record of the page carries a "created" that
\* parse_api_dt rejects; the ValueError is caught nowhere
ChangelogRaises ==
    /\ pc = "changelog"
    /\ {histories \in PageHistories : HistoriesRaise(histories)} # {}
    /\ changelog_requested' = TRUE
    /\ pc' = "raised_ts"
    /\ UNCHANGED <<winVars, matchVars, clVars, args, window, search_requests, pending, page_info, start_at, changes,
                   changelog_errors, rows, printed, csv_file>>

\* get_assignee_changes: a 200 page after which the loop asks for the next page
ChangelogMore ==
    /\ pc = "changelog"
    /\ start_at + max_results < MaxChangelogPages * max_results
    /\ {data \in Paging : LoopContinues(data, start_at)} # {}
    /\ \E histories \in PageHistories :
          /\ ~HistoriesRaise(histories)
          /\ changes' = changes \o HistoryEntries(histories)
    /\ start_at' = start_at + max_results
    /\ changelog_requested' = TRUE
    /\ UNCHANGED <<winVars, matchVars, clVars, pc, args, window, search_requests, pending, page_info,
                   changelog_errors, rows, printed, csv_file>>

\* get_assignee_changes: a 200 page after which the loop ends
ChangelogLast ==
    /\ pc = "changelog"
    /\ {data \in Paging : ~LoopContinues(data, start_at)} # {}
    /\ \E histories \in PageHistories :
          /\ ~HistoriesRaise(histories)
          /\ FinishIssue(changes \o HistoryEntries(histories))
    /\ changelog_requested' = TRUE
    /\ UNCHANGED <<winVars, matchVars, clVars, args, window, search_requests, page_info, changelog_errors,
                   printed, csv_file>>

\* main, lines 339-353: print the rows and write the CSV file
Output ==
    /\ pc = "output"
    /\ printed' = rows
    /\ csv_file' = IF args.csv # <<>> /\ rows # <<>> THEN rows ELSE <<>>
    /\ pc' = "done"
    /\ UNCHANGED <<winVars, matchVars, clVars, args, window, search_requests, pending, page_info, start_at, changes,
                   changelog_requested, changelog_errors, rows>>

Next ==
    \/ ParseWindowRaises
    \/ ParseWindow
    \/ SearchFails
    \/ SearchPage
    \/ ChangelogFails
    \/ ChangelogRaises
    \/ ChangelogMore
    \/ ChangelogLast
    \/ Output

Spec == Init /\ [][Next]_vars

-----------------------------------------------------------------------------
(* SpecChangelog: one call of get_assignee_changes against a server whose
   changelog is finite: every GET returns, and at the latest the response
   to the MaxChangelogPages-th GET is one after which a client that follows
   the paging fields asks no further.  c_server records the responses. *)

\* the "values" of one changelog page
CallHistories ==
    { <<>>,
      <<Rec(Created(3, 1), <<AssigneeItem(Bob, Alice), StatusItem,
                              AssigneeItem(Alice, Unassigned)>>)>>,
      <<Rec(NoCreated, <<AssigneeItem(Bob, Alice)>>),
        Rec(Created(2, 0), <<AssigneeItem(Alice, Bob)>>),
        Rec(Created(1, 0), <<AssigneeItem(Unassigned, Alice)>>)>>,
      <<Rec(Created(3, 0), <<AssigneeItem(Alice, Bob)>>),
        Rec(Created(2, 0), <<AssigneeItem(Bob, Alice), AssigneeItem(Alice, Unassigned)>>)>>,
      <<Rec(Created(1, 0), <<AssigneeItem(Unassigned, Alice)>>),
        Rec(BadCreated, <<AssigneeItem(Bob, Alice)>>)>> }

\* r.status_code, and r.json() when it is 200
OkResponses ==
    [status_code : {200}, values : CallHistories, total : Totals,
     isLast : {"absent", "true", "false"}]
ErrorResponse ==
    [status_code |-> 500, values |-> <<>>, total |-> NoTotal, isLast |-> "absent"]
Responses == OkResponses \cup {ErrorResponse}

\* the server has nothing behind the response r to the GET with startAt = at
EndsChangelog(r, at) ==
    \/ r.status_code # 200
    \/ r.total # NoTotal /\ r.total <= at + max_results
    \/ r.total = NoTotal /\ r.isLast # "false"

\* the server may answer the next GET with r
Answers(r) ==
    Len(c_requests) + 1 = MaxChangelogPages => EndsChangelog(r, c_start_at)

InitChangelog ==
    /\ c_pc = "loop"
    /\ c_server = <<>>
    /\ c_start_at = 0
    /\ c_changes = <<>>
    /\ c_requests = <<>>
    /\ c_result = <<>>
    /\ WindowIdle
    /\ MatchIdle
    /\ RunIdle

\* r = session.get(url, params={"startAt": start_at, "maxResults": max_results})
Get(r) ==
    /\ c_pc = "loop"
    /\ Len(c_requests) < MaxChangelogPages
    /\ Answers(r)
    /\ c_requests' = Append(c_requests, c_start_at)
    /\ c_server' = Append(c_server, r)

\* lines 128-130, 158-159: a status other than 200 breaks the loop
GetFails ==
    \E r \in Responses :
        /\ Get(r)
        /\ r.status_code # 200
        /\ c_result' = SortChanges(ChangesAfterError(c_changes))
        /\ c_pc' = "done"
        /\ UNCHANGED <<winVars, matchVars, runVars, c_start_at, c_changes>>

\* line 137: parse_api_dt raises on a record of the page
GetRaises ==
    \E r \in Responses :
        /\ Get(r)
        /\ r.status_code = 200
        /\ HistoriesRaise(r.values)
        /\ c_pc' = "raised"
        /\ UNCHANGED <<winVars, matchVars, runVars, c_start_at, c_changes, c_result>>

\* lines 131-156 when the loop goes round again
GetMore ==
    \E r \in Responses :
        /\ Get(r)
        /\ r.status_code = 200
        /\ ~HistoriesRaise(r.values)
        /\ LoopContinues(r, c_start_at)
        /\ c_changes' = c_changes \o HistoryEntries(r.values)
        /\ c_start_at' = c_start_at + max_results
        /\ UNCHANGED <<winVars, matchVars, runVars, c_pc, c_result>>

\* lines 131-159 when the loop breaks: sort and return
GetLast ==
    \E r \in Responses :
        /\ Get(r)
        /\ r.status_code = 200
        /\ ~HistoriesRaise(r.values)
        /\ ~LoopContinues(r, c_start_at)
        /\ c_changes' = c_changes \o HistoryEntries(r.values)
        /\ c_start_at' = IF r.total = NoTotal
                         THEN c_start_at ELSE c_start_at + max_results
        /\ c_result' = SortChanges(c_changes')
        /\ c_pc' = "done"
        /\ UNCHANGED <<winVars, matchVars, runVars>>

NextChangelog ==
    \/ GetFails
    \/ GetRaises
    \/ GetMore
    \/ GetLast

\* the interpreter runs the call on, and every GET returns
SpecChangelog == InitChangelog /\ [][NextChangelog]_vars /\ WF_vars(NextChangelog)

-----------------------------------------------------------------------------
(* Properties of compute_assignee_window_info (SpecWindow) *)

WDone == w_pc = "done"

\* interval i ends exactly one time unit before interval i+1 starts
Contiguous(ivs) == \A i \in 1..(Len(ivs) - 1) : ivs[i].end = ivs[i + 1].start - 1

CoversAllTime(ivs) == ivs[1].start = DT_MIN /\ ivs[Len(ivs)].end = DT_MAX

\* interval i lies between two changes that carry the same timestamp
BetweenEqualTimestamps(i) ==
    /\ 2 <= i /\ i <= Len(w_changes)
    /\ w_changes[i - 1].created_dt = w_changes[i].created_dt

\* C1 as stated: for a non-empty sorted change list the intervals cover all
\* time, each interval ends one unit before the next starts, and every interval
\* has start <= end.
C1_AllIntervalsOrdered ==
    (WDone /\ w_changes # <<>>) =>
        /\ CoversAllTime(w_intervals)
        /\ Contiguous(w_intervals)
        /\ \A i \in 1..Len(w_intervals) : w_intervals[i].start <= w_intervals[i].end

\* C1 amended: for a non-empty sorted change list the intervals cover all time
\* and each interval ends one unit before the next starts; every interval has
\* start <= end except an interval between two changes of equal timestamp,
\* whose end is one unit before its start.
C1_ContiguousCover ==
    (WDone /\ w_changes # <<>>) =>
        /\ CoversAllTime(w_intervals)
        /\ Contiguous(w_intervals)
        /\ \A i \in 1..Len(w_intervals) :
              IF BetweenEqualTimestamps(i)
              THEN w_intervals[i].end = w_intervals[i].start - 1
              ELSE w_intervals[i].start <= w_intervals[i].end

C1_Witness ==
    /\ WDone
    /\ Len(w_changes) = 2
    /\ w_changes[1].created_dt = w_changes[2].created_dt
    /\ Len(w_intervals) = 3
    /\ w_intervals[2].start > w_intervals[2].end

\* C10: n >= 1 changes give exactly n+1 intervals: interval 0 is held by the
\* first change's "from" side and ends one unit before it; interval i+1 starts
\* at change i, ends one unit before change i+1 and is held by the "to" side of
\* change i; the last interval starts at the last change, ends at datetime.max
\* and is held by the last change's "to" side.
C10_IntervalShape ==
    (WDone /\ w_changes # <<>>) =>
        LET n == Len(w_changes) IN
        /\ Len(w_intervals) = n + 1
        /\ w_intervals[1].start = DT_MIN
        /\ w_intervals[1].end = w_changes[1].created_dt - 1
        /\ w_intervals[1].id = w_changes[1].from_id
        /\ w_intervals[1].name = w_changes[1].from_name
        /\ \A i \in 1..(n - 1) :
              /\ w_intervals[i + 1].start = w_changes[i].created_dt
              /\ w_intervals[i + 1].end = w_changes[i + 1].created_dt - 1
              /\ w_intervals[i + 1].id = w_changes[i].to_id
              /\ w_intervals[i + 1].name = w_changes[i].to_name
        /\ w_intervals[n + 1].start = w_changes[n].created_dt
        /\ w_intervals[n + 1].end = DT_MAX
        /\ w_intervals[n + 1].id = w_changes[n].to_id
        /\ w_intervals[n + 1].name = w_changes[n].to_name

C10_Witness ==
    /\ WDone
    /\ Len(w_changes) = 2
    /\ w_changes[1].created_dt < w_changes[2].created_dt
    /\ w_changes[1].to_id # w_changes[2].to_id
    /\ w_changes[1].to_id # w_changes[1].from_id
    /\ Len(w_intervals) = 3

\* the identity keys of the returned holder list
HolderKeys == {IdentityKey(w_result.holders[i]) : i \in 1..Len(w_result.holders)}

IntervalKey(iv) == <<iv.id, iv.name>>

\* some instant lies in the interval and in the closed window
SharesInstant(iv) ==
    \E t \in DT_MIN..DT_MAX :
        iv.start <= t /\ t <= iv.end /\ w_start <= t /\ t <= w_end

\* an interval [t, t - 1] between two changes at t, in a window holding t - 1 and t
InvertedInsideWindow(iv) ==
    iv.start > iv.end /\ w_start <= iv.end /\ iv.start <= w_end

\* C2 as stated: an identity is in the holder list if and only if one of its
\* intervals shares an instant with the closed window.
C2_HoldersShareInstant ==
    WDone =>
        \A k \in {IntervalKey(w_intervals[i]) : i \in 1..Len(w_intervals)} :
            k \in HolderKeys <=>
                \E i \in 1..Len(w_intervals) :
                    IntervalKey(w_intervals[i]) = k /\ SharesInstant(w_intervals[i])

\* C2 amended: an identity is in the holder list if and only if one of its
\* intervals shares an instant with the closed window, or is an inverted
\* interval [t, t - 1] (between two changes of equal timestamp t) and the
\* window contains both t - 1 and t.  No other identity is in the list.
C2_HoldersOverlap ==
    WDone =>
        /\ HolderKeys \subseteq {IntervalKey(w_intervals[i]) : i \in 1..Len(w_intervals)}
        /\ \A k \in {IntervalKey(w_intervals[i]) : i \in 1..Len(w_intervals)} :
              k \in HolderKeys <=>
                  \E i \in 1..Len(w_intervals) :
                      /\ IntervalKey(w_intervals[i]) = k
                      /\ \/ SharesInstant(w_intervals[i])
                         \/ InvertedInsideWindow(w_intervals[i])

C2_Witness ==
    /\ WDone
    /\ Len(w_intervals) = 3
    /\ InvertedInsideWindow(w_intervals[2])
    /\ IntervalKey(w_intervals[2]) \in HolderKeys
    /\ IntervalKey(w_intervals[2]) # IntervalKey(w_intervals[1])
    /\ IntervalKey(w_intervals[2]) # IntervalKey(w_intervals[3])
    /\ ~SharesInstant(w_intervals[2])

\* the part of interval i inside the window, for the intervals that reach into it
Candidates ==
    {[key |-> IntervalKey(w_intervals[i]),
      os  |-> Max2(w_intervals[i].start, w_start),
      oe  |-> Min2(w_intervals[i].end, w_end)] :
        i \in {j \in 1..Len(w_intervals) :
                 w_intervals[j].start <= w_end /\ w_start <= w_intervals[j].end}}

LexLeq(s1, e1, s2, e2) == s1 < s2 \/ (s1 = s2 /\ e1 <= e2)

\* C7: the holder list is ascending by (overlap_start, overlap_end), holds each
\* identity key (id, name) once, at its first occurrence in that order (ownership
\* A, B, A inside the window gives [A, B]), and the first and last holder
\* reported are the first and last entries of the list.
C7_OrderedUniqueHolders ==
    WDone =>
        LET H == w_result.holders IN
        /\ \A i, j \in 1..Len(H) :
              i < j => /\ LexLeq(H[i].overlap_start, H[i].overlap_end,
                                 H[j].overlap_start, H[j].overlap_end)
                       /\ IdentityKey(H[i]) # IdentityKey(H[j])
        /\ \A i \in 1..Len(H) :
              /\ \E c \in Candidates :
                    c.key = IdentityKey(H[i]) /\ c.os = H[i].overlap_start
                                              /\ c.oe = H[i].overlap_end
              /\ \A c \in Candidates :
                    c.key = IdentityKey(H[i]) =>
                        LexLeq(H[i].overlap_start, H[i].overlap_end, c.os, c.oe)
        /\ \A c \in Candidates : c.key \in HolderKeys
        /\ (Len(w_intervals) = 3 /\ Cardinality(Candidates) = 3
              /\ IntervalKey(w_intervals[1]) = IntervalKey(w_intervals[3])
              /\ IntervalKey(w_intervals[1]) # IntervalKey(w_intervals[2]))
           => (Len(H) = 2 /\ IdentityKey(H[1]) = IntervalKey(w_intervals[1])
                          /\ IdentityKey(H[2]) = IntervalKey(w_intervals[2]))
        /\ w_result.first_assignee_in_window = (IF H # <<>> THEN H[1].name ELSE <<>>)
        /\ w_result.last_assignee_in_window = (IF H # <<>> THEN H[Len(H)].name ELSE <<>>)

C7_Witness ==
    /\ WDone
    /\ Len(w_intervals) = 3
    /\ IntervalKey(w_intervals[1]) = <<Alice.id, Alice.name>>
    /\ IntervalKey(w_intervals[2]) = <<Bob.id, Bob.name>>
    /\ IntervalKey(w_intervals[3]) = <<Alice.id, Alice.name>>
    /\ w_intervals[2].start <= w_intervals[2].end
    /\ Cardinality(Candidates) = 3
    /\ Len(w_result.holders) = 2
    /\ w_result.first_assignee_in_window = Alice.name
    /\ w_result.last_assignee_in_window = Bob.name

\* C8: without changes the timeline is the one interval from datetime.min to
\* datetime.max held by the current assignee, so for every window with
\* start <= end the holder list is that one holder, over the whole window, and
\* first and last holder are that holder.
C8_NoChangesSingleHolder ==
    (WDone /\ w_changes = <<>>) =>
        /\ w_intervals = <<[start |-> DT_MIN, end |-> DT_MAX,
                            id |-> w_fields.assignee.accountId,
                            name |-> w_fields.assignee.displayName]>>
        /\ w_result.holders = <<[id |-> w_fields.assignee.accountId,
                                 name |-> w_fields.assignee.displayName,
                                 overlap_start |-> w_start,
                                 overlap_end |-> w_end]>>
        /\ w_result.first_assignee_in_window = w_fields.assignee.displayName
        /\ w_result.last_assignee_in_window = w_fields.assignee.displayName

C8_Witness ==
    /\ WDone
    /\ w_changes = <<>>
    /\ w_fields.assignee = AssigneeObj(Alice)
    /\ w_start = w_end
    /\ Len(w_result.holders) = 1
    /\ w_result.first_assignee_in_window = Alice.name

-----------------------------------------------------------------------------
(* Properties of match_holders_to_user_filter (SpecMatch) *)

\* the identity field the mode selects
SelectedField(h) == IF m_accountid THEN h.id ELSE h.name

\* the string shown for a matched holder
DisplayOf(h) == IF m_accountid /\ ~Truthy(h.name) THEN h.id ELSE h.name

\* the holder's trimmed, case-folded field equals a trimmed, case-folded entry
TrimFoldMatches(h) ==
    /\ SelectedField(h) # None
    /\ \E i \in 1..Len(m_users) :
          Lower(Strip(SelectedField(h))) = Lower(Strip(m_users[i]))

FirstMatchPos(x) ==
    CHOOSE k \in 1..Len(m_holders) :
        /\ TrimFoldMatches(m_holders[k]) /\ DisplayOf(m_holders[k]) = x
        /\ \A l \in 1..(k - 1) :
              ~(TrimFoldMatches(m_holders[l]) /\ DisplayOf(m_holders[l]) = x)

\* C6: with both sides trimmed and case-folded, a holder is in the output if
\* and only if its selected field equals some filter entry; the display strings
\* come in holder order and none is repeated.
C6_TrimFoldBothSides ==
    (m_pc = "done" /\ m_users # <<>>) =>
        /\ {m_result[i] : i \in 1..Len(m_result)}
              = {DisplayOf(m_holders[k]) :
                    k \in {l \in 1..Len(m_holders) : TrimFoldMatches(m_holders[l])}}
        /\ \A i, j \in 1..Len(m_result) :
              i < j => /\ m_result[i] # m_result[j]
                       /\ FirstMatchPos(m_result[i]) < FirstMatchPos(m_result[j])

-----------------------------------------------------------------------------
(* Properties of a run of main (Spec) *)

\* an optional string and a column that shows "" for an absent one agree
SameOptional(opt, column) == IF Truthy(opt) THEN opt = column ELSE column = <<>>

\* the window columns of a row are those of an issue without any change: the
\* current assignee alone, first and last
RowOfEmptyChangeList(r) ==
    /\ r.assignees_during_window_display = TruthyOnly(<<r.assignee_display>>)
    /\ r.assignees_during_window_accountIds = TruthyOnly(<<r.assignee_accountId>>)
    /\ SameOptional(r.first_assignee_in_window, r.assignee_display)
    /\ SameOptional(r.last_assignee_in_window, r.assignee_display)

\* C3: an issue whose changelog request was answered with an error on any page
\* is processed with an empty change list: its row shows the current assignee
\* as the only holder.
C3_FailedFetchUsesEmptyList ==
    \A i \in 1..Len(rows) :
        rows[i].key \in changelog_errors => RowOfEmptyChangeList(rows[i])

\* C4: a changelog record whose timestamp cannot be parsed is skipped; it never
\* ends the run.
C4_BadTimestampSkipped == pc # "raised_ts"

\* C5: with a window whose end precedes its start, no search request and no
\* changelog request is sent and no row is built.
C5_MalformedWindowRejected ==
    window.end < window.start =>
        search_requests = 0 /\ ~changelog_requested /\ rows = <<>>

\* C9: when the run has aborted (a window date that does not parse, an error
\* response of the search on any page, an exception on the way), no result
\* row has been printed or written to the CSV file.
C9_NoOutputOnAbort == Aborted => (printed = <<>> /\ csv_file = <<>>)

C9_Witness ==
    /\ pc = "exit2"
    /\ search_requests = 2
    /\ Len(rows) >= 1
    /\ args.csv # <<>>
    /\ printed = <<>>
    /\ csv_file = <<>>

-----------------------------------------------------------------------------
(* Properties of get_assignee_changes (SpecChangelog) *)

\* the responses the call has received
Received == 1..Len(c_requests)

\* <<p, r, i>>: item i of record r of the values of the p-th response, for
\* the 200 responses received, the records that carry a timestamp and the
\* items of the field "assignee"
SourceItems ==
    UNION { UNION { { <<p, r, i>> : i \in { j \in 1..Len(c_server[p].values[r].items) :
                                              c_server[p].values[r].items[j].field = "assignee" } } :
                    r \in { q \in 1..Len(c_server[p].values) :
                               c_server[p].values[q].created.present } } :
            p \in { q \in Received : c_server[q].status_code = 200 } }

ItemAt(s) == c_server[s[1]].values[s[2]].items[s[3]]
TimeAt(s) == c_server[s[1]].values[s[2]].created.local - c_server[s[1]].values[s[2]].created.offset
EntryAt(s) ==
    [created_dt |-> TimeAt(s),
     from_id |-> ItemAt(s).from, from_name |-> ItemAt(s).fromString,
     to_id |-> ItemAt(s).to,     to_name |-> ItemAt(s).toString]

\* page and item order
Earlier(q, s) ==
    \/ q[1] < s[1]
    \/ q[1] = s[1] /\ q[2] < s[2]
    \/ q[1] = s[1] /\ q[2] = s[2] /\ q[3] < s[3]

\* the place of s in the returned list: behind the items of smaller timestamp
\* and behind the earlier items of equal timestamp
PlaceOf(s) ==
    1 + Cardinality({ q \in SourceItems :
                        \/ TimeAt(q) < TimeAt(s)
                        \/ TimeAt(q) = TimeAt(s) /\ Earlier(q, s) })

\* C11: when get_assignee_changes returns, the returned list has exactly one
\* entry per assignee item of the received records that carry a timestamp,
\* no entry for items of other fields or for records without timestamp, in
\* ascending order of timestamp, entries of equal timestamp in page and item
\* order.
C11_SortedAssigneeItems ==
    c_pc = "done" =>
        /\ Len(c_result) = Cardinality(SourceItems)
        /\ \A s \in SourceItems : c_result[PlaceOf(s)] = EntryAt(s)

\* a returned list made from two pages, where the sort moved an entry of the
\* second page in front of one of the first, two different entries share a
\* timestamp, and the pages held a record without timestamp and an item of
\* another field
C11_Witness ==
    /\ c_pc = "done"
    /\ \E q, s \in SourceItems : q[1] < s[1] /\ TimeAt(s) < TimeAt(q)
    /\ \E q, s \in SourceItems : Earlier(q, s) /\ TimeAt(q) = TimeAt(s)
                                  /\ EntryAt(q) # EntryAt(s)
    /\ \E p \in Received : \E r \in 1..Len(c_server[p].values) :
            ~c_server[p].values[r].created.present
    /\ \E p \in Received : \E r \in 1..Len(c_server[p].values) :
            \E i \in 1..Len(c_server[p].values[r].items) :
                c_server[p].values[r].items[i].field # "assignee"

\* the loop is over: the call has returned or has raised
LoopEnded == c_pc \in {"done", "raised"}

\* a response at which the claim lets the loop stop
StopsAt(k) ==
    \/ c_server[k].status_code # 200
    \/ c_server[k].total # NoTotal /\ c_server[k].total <= c_requests[k] + 100
    \/ c_server[k].total = NoTotal /\ c_server[k].isLast \in {"true", "absent"}

PagingAsClaimed ==
    /\ \A k \in Received : c_requests[k] = (k - 1) * 100
    /\ \A k \in Received : StopsAt(k) => k = Len(c_requests) /\ LoopEnded
    /\ c_pc = "done" => c_requests # <<>> /\ StopsAt(Len(c_requests))

\* C12: against a server with a finite changelog whose every GET returns,
\* the pagination loop ends; the offsets it asks for are 0, 100, 200, ...;
\* it never asks again after a response that is non-200, or reports a total
\* <= offset + 100, or reports no total and isLast true or absent; and when
\* it breaks, the last response is such a response.
C12_PagingTerminates == []PagingAsClaimed /\ <>LoopEnded

\* the loop broke at the second GET, offset 100, on a total the second page
\* reaches; the first response reported a larger total
C12_Witness ==
    /\ c_pc = "done"
    /\ c_requests = <<0, 100>>
    /\ c_server[1].total > 100
    /\ c_server[2].total # NoTotal
    /\ c_server[2].status_code = 200

====
